---- MODULE Spec2Model ----
(***************************************************************************)
(* Model of core/bin/zksync_api/src/signature_checker.rs: the verification *)
(* protocol VerifiedTx::verify with its accessors, and the dispatch engine *)
(* start_sign_checker_detached / checker_routine.                          *)
(*                                                                         *)
(* A call of verify is a record (a VerifyCall): the request's payload, the *)
(* position of the call (pc, i), the on-chain query it is suspended on,    *)
(* its result and the trace of the external calls it has made.  The only   *)
(* suspension points of verify are its two on-chain queries, so one step   *)
(* of a call runs the code from one .await of a query to the next.         *)
(***************************************************************************)
EXTENDS Integers, Sequences, FiniteSets, TLC

\* ------------------------------------------------------------ bounds
MaxBatch == 2
MaxReq == 2
QueueCap == 1

\* ------------------------------------------------------------ data model
Accounts == {"a1", "a2"}
RecoverError == "recover_error"
TxMessage == "tx_message"
BatchMessage == "batch_message"

None == <<>>
Some(x) == <<x>>

\* TxEthSignature: an EthereumSignature is represented by what
\* signature_recover_signer yields for it on the message it comes with.
TxEthSignature ==
    [type : {"EthereumSignature"}, signer : Accounts \cup {RecoverError}]
        \cup [type : {"EIP1271Signature"}, signer : {"contract"}]

EthSignData(messages) == [signature : TxEthSignature, message : messages]

\* ZkSyncTx: ChangePubKey and the other kinds (Transfer stands for them).
\* correct is what check_correctness answers for the transaction.
ZkSyncTx ==
    [kind : {"Transfer"}, account : Accounts, nonce : {0},
     new_pk_hash : {"-"}, eth_signature : {FALSE}, correct : BOOLEAN]
        \cup [kind : {"ChangePubKey"}, account : Accounts, nonce : {0},
              new_pk_hash : {"pkh"}, eth_signature : BOOLEAN, correct : BOOLEAN]

TxWithSignData ==
    [tx : ZkSyncTx,
     eth_sign_data : {None} \cup {Some(d) : d \in EthSignData({TxMessage})}]

SeqsUpTo(S, n) == UNION {[1..k -> S] : k \in 0..n}

TxVariant ==
    [variant : {"Tx"}, txs : {<<t>> : t \in TxWithSignData},
     batch_sign_data : {None}]
        \cup [variant : {"Batch"}, txs : SeqsUpTo(TxWithSignData, MaxBatch),
              batch_sign_data : {Some(d) : d \in EthSignData({BatchMessage})}]

\* Result<VerifiedTx, TxAddError>
NoResult == [tag |-> "None", err |-> "", val |-> None]
Ok(v) == [tag |-> "Ok", err |-> "", val |-> Some(v)]
Err(e) == [tag |-> "Err", err |-> e, val |-> None]

\* ------------------------------------------------------------ externals
account(tx) == tx.account
check_correctness(tx) == tx.correct
signature_recover_signer(signature, message) == signature.signer

\* The external calls a call of verify makes, as entries of its trace: the
\* call, its arguments and the item (item) of the payload it is made for.
QueryPk(k, tx) ==
    [call |-> "is_new_pubkey_hash_authorized", item |-> k, account |-> tx.account,
     nonce |-> tx.nonce, new_pk_hash |-> tx.new_pk_hash,
     message |-> "-", signature |-> None]
QueryEip(k, acc, message, signature) ==
    [call |-> "is_eip1271_signature_correct", item |-> k, account |-> acc,
     nonce |-> 0, new_pk_hash |-> "-",
     message |-> message, signature |-> Some(signature)]
CheckEvent(k, tx) ==
    [call |-> "check_correctness", item |-> k, account |-> tx.account,
     nonce |-> tx.nonce, new_pk_hash |-> tx.new_pk_hash,
     message |-> "-", signature |-> None]

\* ------------------------------------------------------------ verify
NewCall(payload) ==
    [tx |-> payload, pc |-> "start", i |-> 0, pending |-> None,
     result |-> NoResult, trace |-> <<>>, answers |-> <<>>]

Return(c, res) == [c EXCEPT !.pc = "done", !.result = res, !.pending = None]
Await(c, pc, q) ==
    [c EXCEPT !.pc = pc, !.pending = Some(q), !.trace = Append(@, q)]
Panic(c) == [c EXCEPT !.pc = "panicked", !.pending = None]

Item(c) == c.tx.txs[c.i]
BatchSignData(c) == c.tx.batch_sign_data[1]

\* SignedZkSyncTx { tx, eth_sign_data }
SignedZkSyncTx(t) == [tx |-> t.tx, eth_sign_data |-> t.eth_sign_data]

\* VerifiedTx with every batch item stamped with the batch signature data
VerifiedTx_stamped(payload) ==
    IF payload.variant = "Tx"
    THEN [variant |-> "Tx", txs |-> <<SignedZkSyncTx(payload.txs[1])>>,
          eth_signature |-> None]
    ELSE [variant |-> "Batch",
          txs |-> [k \in 1..Len(payload.txs) |->
                      [tx |-> payload.txs[k].tx,
                       eth_sign_data |-> payload.batch_sign_data]],
          eth_signature |-> Some(payload.batch_sign_data[1].signature)]

\* lines 68-86: the closure of .map
VerifiedTx(payload) ==
    IF payload.variant = "Tx"
    THEN [variant |-> "Tx", txs |-> <<SignedZkSyncTx(payload.txs[1])>>,
          eth_signature |-> None]
    ELSE [variant |-> "Batch",
          txs |-> [k \in 1..Len(payload.txs) |-> SignedZkSyncTx(payload.txs[k])],
          eth_signature |-> Some(payload.batch_sign_data[1].signature)]

\* The items check_correctness is called on: any() stops at the first item
\* that fails.
RECURSIVE CheckedPrefix(_, _)
CheckedPrefix(txs, k) ==
    IF k > Len(txs) THEN <<>>
    ELSE IF ~check_correctness(txs[k].tx) THEN <<CheckEvent(k, txs[k].tx)>>
    ELSE <<CheckEvent(k, txs[k].tx)>> \o CheckedPrefix(txs, k + 1)

\* verify_tx_correctness that looks at the first item of a batch only
verify_tx_correctness_first(payload) ==
    IF Len(payload.txs) > 0 /\ ~check_correctness(payload.txs[1].tx)
    THEN Err("IncorrectTx") ELSE Ok(<<>>)

\* lines 221-235
verify_tx_correctness(payload) ==
    IF payload.variant = "Tx"
    THEN IF ~check_correctness(payload.txs[1].tx) THEN Err("IncorrectTx") ELSE Ok(<<>>)
    ELSE IF \E k \in 1..Len(payload.txs) : ~check_correctness(payload.txs[k].tx)
         THEN Err("IncorrectTx") ELSE Ok(<<>>)

\* verify without the .and_then(verify_tx_correctness)
verify_and_then_unchecked(c) == Return(c, Ok(VerifiedTx(c.tx)))

\* lines 67-86: .and_then(verify_tx_correctness).map(...) once
\* verify_eth_signature has returned Ok(())
verify_and_then(c) ==
    LET r == verify_tx_correctness(c.tx)
        d == [c EXCEPT !.trace = @ \o CheckedPrefix(c.tx.txs, 1)]
    IN  IF r.tag = "Err" THEN Return(d, r)
        ELSE Return(d, Ok(VerifiedTx(c.tx)))

RECURSIVE verify_eth_signature_single_tx(_)

\* lines 111-125, after one verify_eth_signature_single_tx returned Ok(()):
\* the next item of the batch loop, or Ok(()) to verify
single_tx_ok(c) ==
    IF c.tx.variant = "Batch" /\ c.i < Len(c.tx.txs)
    THEN verify_eth_signature_single_tx([c EXCEPT !.i = c.i + 1])
    ELSE verify_and_then(c)

\* The signature check without the comparison of lines 159-161
check_the_signature_recover_only(c) ==
    LET t == Item(c) IN
    IF t.eth_sign_data = None THEN single_tx_ok(c)
    ELSE LET sign_data == t.eth_sign_data[1] IN
         IF sign_data.signature.type = "EthereumSignature"
         THEN IF signature_recover_signer(sign_data.signature, sign_data.message)
                    = RecoverError
              THEN Return(c, Err("IncorrectEthSignature"))
              ELSE single_tx_ok(c)
         ELSE Await(c, "single_eip1271",
                    QueryEip(c.i, account(t.tx), sign_data.message, sign_data.signature))

\* lines 151-180
check_the_signature(c) ==
    LET t == Item(c) IN
    IF t.eth_sign_data = None THEN single_tx_ok(c)
    ELSE LET sign_data == t.eth_sign_data[1] IN
         IF sign_data.signature.type = "EthereumSignature"
         THEN LET signer_account ==
                      signature_recover_signer(sign_data.signature, sign_data.message)
              IN  IF signer_account = RecoverError
                  THEN Return(c, Err("IncorrectEthSignature"))
                  ELSE IF signer_account # account(t.tx)
                  THEN Return(c, Err("IncorrectEthSignature"))
                  ELSE single_tx_ok(c)
         ELSE Await(c, "single_eip1271",
                    QueryEip(c.i, account(t.tx), sign_data.message, sign_data.signature))

\* verify_eth_signature_single_tx that takes attached signature data in
\* place of the on-chain authorization
single_tx_onchain_unless_signed(c) ==
    LET t == Item(c) IN
    IF t.tx.kind = "ChangePubKey" /\ ~t.tx.eth_signature
          /\ t.eth_sign_data = None
    THEN Await(c, "change_pk", QueryPk(c.i, t.tx))
    ELSE check_the_signature(c)

\* verify_eth_signature_single_tx without the on-chain path of lines 133-149
single_tx_skip_onchain(c) == check_the_signature(c)

\* lines 128-149
verify_eth_signature_single_tx(c) ==
    LET t == Item(c) IN
    IF t.tx.kind = "ChangePubKey" /\ ~t.tx.eth_signature
    THEN Await(c, "change_pk", QueryPk(c.i, t.tx))
    ELSE check_the_signature(c)

\* lines 117-121: the loop over the items of a batch
batch_items(c) ==
    IF Len(c.tx.txs) = 0 THEN verify_and_then(c)
    ELSE verify_eth_signature_single_tx([c EXCEPT !.i = 1])

\* The loop of the EIP1271 arm that queries each account once: an item
\* whose account an earlier item has is passed over
RECURSIVE batch_eip1271_loop_distinct(_)
batch_eip1271_loop_distinct(c) ==
    IF c.i > Len(c.tx.txs) THEN batch_items(c)
    ELSE IF \E j \in 1..(c.i - 1) :
                account(c.tx.txs[j].tx) = account(Item(c).tx)
    THEN batch_eip1271_loop_distinct([c EXCEPT !.i = @ + 1])
    ELSE Await(c, "batch_eip1271",
               QueryEip(c.i, account(Item(c).tx), BatchSignData(c).message,
                        BatchSignData(c).signature))

\* lines 198-213: the loop of the EIP1271 arm, about to handle item c.i
batch_eip1271_loop(c) ==
    IF c.i > Len(c.tx.txs) THEN batch_items(c)
    ELSE Await(c, "batch_eip1271",
               QueryEip(c.i, account(Item(c).tx), BatchSignData(c).message,
                        BatchSignData(c).signature))

\* verify_eth_signature_txs_batch that compares the signer with the account
\* of the first item only
verify_eth_signature_txs_batch_first(c) ==
    LET batch_sign_data == BatchSignData(c) IN
    IF batch_sign_data.signature.type = "EthereumSignature"
    THEN LET signer_account ==
                 signature_recover_signer(batch_sign_data.signature,
                                          batch_sign_data.message)
         IN  IF signer_account = RecoverError
             THEN Return(c, Err("IncorrectEthSignature"))
             ELSE IF Len(c.tx.txs) > 0 /\ account(c.tx.txs[1].tx) # signer_account
             THEN Return(c, Err("IncorrectEthSignature"))
             ELSE batch_items(c)
    ELSE batch_eip1271_loop([c EXCEPT !.i = 1])

\* lines 183-217
verify_eth_signature_txs_batch(c) ==
    LET batch_sign_data == BatchSignData(c) IN
    IF batch_sign_data.signature.type = "EthereumSignature"
    THEN LET signer_account ==
                 signature_recover_signer(batch_sign_data.signature,
                                          batch_sign_data.message)
         IN  IF signer_account = RecoverError
             THEN Return(c, Err("IncorrectEthSignature"))
             ELSE IF \E k \in 1..Len(c.tx.txs) :
                         account(c.tx.txs[k].tx) # signer_account
             THEN Return(c, Err("IncorrectEthSignature"))
             ELSE batch_items(c)
    ELSE batch_eip1271_loop([c EXCEPT !.i = 1])

\* verify_eth_signature that drops the result of the batch-level check (the
\* ? of line 116 left out)
verify_eth_signature_batch_unchecked(c) ==
    IF c.tx.variant = "Tx"
    THEN verify_eth_signature_single_tx([c EXCEPT !.i = 1])
    ELSE batch_items(c)

\* lines 107-126
verify_eth_signature(c) ==
    IF c.tx.variant = "Tx"
    THEN verify_eth_signature_single_tx([c EXCEPT !.i = 1])
    ELSE verify_eth_signature_txs_batch(c)

\* verify with the correctness gate before the authorization checks
verify_correctness_first(c) ==
    LET d == [c EXCEPT !.trace = @ \o CheckedPrefix(c.tx.txs, 1)] IN
    IF verify_tx_correctness(c.tx).tag = "Err"
    THEN Return(d, Err("IncorrectTx"))
    ELSE verify_eth_signature(d)

\* lines 61-87: the first poll of verify, up to its first suspension
verify(c) == verify_eth_signature(c)

\* The answer of the on-chain query arrives: .await.expect(..) and the code
\* after it.  An answer is Ok(true), Ok(false) or Err (the transport failed).
Answers == {"true", "false", "error"}
\* resume that turns a transport failure into a rejection
resume_error_rejected(c, answer) ==
    LET d == [c EXCEPT !.pending = None, !.answers = Append(@, answer)]
        ans == (answer = "true")
    IN
    CASE c.pc = "change_pk" ->
            IF ~ans THEN Return(d, Err("ChangePkNotAuthorized"))
            ELSE check_the_signature(d)
      [] c.pc = "single_eip1271" ->
            IF ~ans THEN Return(d, Err("IncorrectTx"))
            ELSE single_tx_ok(d)
      [] c.pc = "batch_eip1271" ->
            IF ~ans THEN Return(d, Err("IncorrectTx"))
            ELSE batch_eip1271_loop([d EXCEPT !.i = c.i + 1])

\* resume that rejects a negative EIP1271 answer as a signature mismatch
resume_eip1271_as_signature(c, answer) ==
    IF answer = "error" THEN Panic([c EXCEPT !.answers = Append(@, answer)])
    ELSE LET d == [c EXCEPT !.pending = None, !.answers = Append(@, answer)]
             ans == (answer = "true")
         IN
         CASE c.pc = "change_pk" ->
                 IF ~ans THEN Return(d, Err("ChangePkNotAuthorized"))
                 ELSE check_the_signature(d)
           [] c.pc = "single_eip1271" ->
                 IF ~ans THEN Return(d, Err("IncorrectEthSignature"))
                 ELSE single_tx_ok(d)
           [] c.pc = "batch_eip1271" ->
                 IF ~ans THEN Return(d, Err("IncorrectEthSignature"))
                 ELSE batch_eip1271_loop([d EXCEPT !.i = c.i + 1])

\* resume that goes on after a denied ChangePubKey authorization
resume_denial_ignored(c, answer) ==
    IF answer = "error" THEN Panic([c EXCEPT !.answers = Append(@, answer)])
    ELSE LET d == [c EXCEPT !.pending = None, !.answers = Append(@, answer)]
             ans == (answer = "true")
         IN
         CASE c.pc = "change_pk" -> check_the_signature(d)
           [] c.pc = "single_eip1271" ->
                 IF ~ans THEN Return(d, Err("IncorrectTx"))
                 ELSE single_tx_ok(d)
           [] c.pc = "batch_eip1271" ->
                 IF ~ans THEN Return(d, Err("IncorrectTx"))
                 ELSE batch_eip1271_loop([d EXCEPT !.i = c.i + 1])

resume(c, answer) ==
    IF answer = "error" THEN Panic([c EXCEPT !.answers = Append(@, answer)])
    ELSE LET d == [c EXCEPT !.pending = None, !.answers = Append(@, answer)]
             ans == (answer = "true")
         IN
         CASE c.pc = "change_pk" ->
                 IF ~ans THEN Return(d, Err("ChangePkNotAuthorized"))
                 ELSE check_the_signature(d)
           [] c.pc = "single_eip1271" ->
                 IF ~ans THEN Return(d, Err("IncorrectTx"))
                 ELSE single_tx_ok(d)
           [] c.pc = "batch_eip1271" ->
                 IF ~ans THEN Return(d, Err("IncorrectTx"))
                 ELSE batch_eip1271_loop([d EXCEPT !.i = c.i + 1])

Suspended(c) == c.pc \in {"change_pk", "single_eip1271", "batch_eip1271"}

\* unwrap_tx that hands out the transactions of a batch
unwrap_tx_lenient(v) == [panic |-> FALSE, txs |-> v.txs, sig |-> None]

\* lines 90-95 and 98-103: the value, or "panic"
unwrap_tx(v) ==
    IF v.variant = "Tx" THEN [panic |-> FALSE, txs |-> v.txs, sig |-> None]
    ELSE [panic |-> TRUE, txs |-> <<>>, sig |-> None]
unwrap_batch(v) ==
    IF v.variant = "Batch"
    THEN [panic |-> FALSE, txs |-> v.txs, sig |-> v.eth_signature]
    ELSE [panic |-> TRUE, txs |-> <<>>, sig |-> None]

\* ------------------------------------------------------------ state
\* call, got: one call of VerifiedTx::verify and the accessor applied to its
\*            value (the verification protocol on its own);
\* input:     the mpsc channel of requests: the ids buffered in it and
\*            whether a Sender of it is still alive;
\* requests:  the payloads of the requests submitted so far (the id of a
\*            request is its index);
\* slots:     the oneshot channel of each request;
\* tasks:     the task spawned for each request pulled so far;
\* engine:    the position of checker_routine;
\* runtime:   the tokio runtime of the worker thread.
VARIABLES call, got, input, requests, slots, tasks, engine, runtime

vars == <<call, got, input, requests, slots, tasks, engine, runtime>>
verify_vars == <<call, got>>
engine_vars == <<input, requests, slots, tasks, engine, runtime>>

NotCalled == [accessor |-> "-", panic |-> FALSE, txs |-> <<>>, sig |-> None]

\* ------------------------------------------------------------ payloads
EthereumSignature(signer) == [type |-> "EthereumSignature", signer |-> signer]
EIP1271Signature == [type |-> "EIP1271Signature", signer |-> "contract"]
Transfer(a, ok) ==
    [kind |-> "Transfer", account |-> a, nonce |-> 0, new_pk_hash |-> "-",
     eth_signature |-> FALSE, correct |-> ok]
ChangePubKey(a, signed, ok) ==
    [kind |-> "ChangePubKey", account |-> a, nonce |-> 0, new_pk_hash |-> "pkh",
     eth_signature |-> signed, correct |-> ok]
Signed(t, signature) ==
    [tx |-> t, eth_sign_data |-> Some([signature |-> signature, message |-> TxMessage])]
Unsigned(t) == [tx |-> t, eth_sign_data |-> None]
SingleTx(t) == [variant |-> "Tx", txs |-> <<t>>, batch_sign_data |-> None]
Batch(txs, signature) ==
    [variant |-> "Batch", txs |-> txs,
     batch_sign_data |-> Some([signature |-> signature, message |-> BatchMessage])]

\* The payloads the callers of the engine submit: a transfer that verifies
\* (one per account), a transfer whose signature recovers to another account,
\* a ChangePubKey to be authorized on-chain, and a batch of one such
\* ChangePubKey under a contract-validated signature.
EnginePayloads ==
    {SingleTx(Signed(Transfer(a, TRUE), EthereumSignature(a))) : a \in Accounts}
        \cup {SingleTx(Signed(Transfer("a1", TRUE), EthereumSignature("a2"))),
              SingleTx(Unsigned(ChangePubKey("a1", FALSE, TRUE))),
              Batch(<<Unsigned(ChangePubKey("a2", FALSE, TRUE))>>, EIP1271Signature)}

\* ------------------------------------------------------------ engine
\* oneshot::channel(): the value sent, and which ends are alive
NewSlot == [delivered |-> <<>>, sender |-> "alive", receiver |-> "alive"]

\* a send that loses the value
send_lost(slot, resp) == [slot EXCEPT !.sender = "consumed"]

\* line 270: request.response.send(resp).unwrap_or_default(): the Sender is
\* consumed; the value is stored unless the Receiver is gone
send(slot, resp) ==
    IF slot.receiver = "alive"
    THEN [slot EXCEPT !.delivered = Append(@, resp), !.sender = "consumed"]
    ELSE [slot EXCEPT !.sender = "consumed"]

\* the task's future is dropped with the request in it: the Sender is dropped
drop_sender(slot) ==
    IF slot.sender = "alive" THEN [slot EXCEPT !.sender = "dropped"] ELSE slot

\* a task that reads the first request instead of its own
spawn_shared(r) == NewCall(requests[1])

\* line 267-268: the task owns the request it was spawned for
spawn(r) == NewCall(requests[r])

\* a task that unwraps the result of send: it panics when the Receiver is gone
task_polled_unwrap(r, c) ==
    /\ tasks' = [tasks EXCEPT ![r] =
                    IF c.pc = "done" /\ slots[r].receiver # "alive"
                    THEN Panic(c) ELSE c]
    /\ slots' = [slots EXCEPT ![r] =
                    CASE c.pc = "done" -> send(@, c.result)
                      [] c.pc = "panicked" -> drop_sender(@)
                      [] OTHER -> @]

\* lines 267-271 after a poll of the task left its call of verify in c
task_polled(r, c) ==
    /\ tasks' = [tasks EXCEPT ![r] = c]
    /\ slots' = [slots EXCEPT ![r] =
                    CASE c.pc = "done" -> send(@, c.result)
                      [] c.pc = "panicked" -> drop_sender(@)
                      [] OTHER -> @]

Init ==
    /\ input = [queue |-> <<>>, open |-> TRUE]
    /\ requests = <<>>
    /\ slots = <<>>
    /\ tasks = <<>>
    /\ engine = "running"
    /\ runtime = "running"
    /\ call = NewCall(SingleTx(Unsigned(Transfer("a1", TRUE))))
    /\ got = NotCalled

\* A caller builds a request and its reply slot and enqueues it.
Submit ==
    /\ input.open
    /\ engine = "running"
    /\ Len(requests) < MaxReq
    /\ Len(input.queue) < QueueCap
    /\ \E p \in EnginePayloads :
          /\ requests' = Append(requests, p)
          /\ slots' = Append(slots, NewSlot)
          /\ input' = [input EXCEPT !.queue = Append(@, Len(requests) + 1)]
    /\ UNCHANGED <<tasks, engine, runtime, verify_vars>>

\* The last Sender of the inbound queue is dropped.
CloseInput ==
    /\ input.open
    /\ input' = [input EXCEPT !.open = FALSE]
    /\ UNCHANGED <<requests, slots, tasks, engine, runtime, verify_vars>>

\* a loop that awaits the task it spawned before it pulls the next request
Pull_awaiting ==
    /\ engine = "running"
    /\ input.queue # <<>>
    /\ \A t \in DOMAIN tasks : tasks[t].pc \in {"done", "panicked"}
    /\ LET r == Head(input.queue) IN
          /\ input' = [input EXCEPT !.queue = Tail(@)]
          /\ tasks' = Append(tasks, spawn(r))
    /\ UNCHANGED <<requests, slots, engine, runtime, verify_vars>>

\* a loop that the panic of a task it spawned brings down
Pull_unless_fault ==
    /\ engine = "running"
    /\ input.queue # <<>>
    /\ \A t \in DOMAIN tasks : tasks[t].pc # "panicked"
    /\ LET r == Head(input.queue) IN
          /\ input' = [input EXCEPT !.queue = Tail(@)]
          /\ tasks' = Append(tasks, spawn(r))
    /\ UNCHANGED <<requests, slots, engine, runtime, verify_vars>>

\* lines 265-272: one iteration of the loop of checker_routine
Pull ==
    /\ engine = "running"
    /\ input.queue # <<>>
    /\ LET r == Head(input.queue) IN
          /\ input' = [input EXCEPT !.queue = Tail(@)]
          /\ tasks' = Append(tasks, spawn(r))
    /\ UNCHANGED <<requests, slots, engine, runtime, verify_vars>>

\* lines 265, 273, 286-287: input.next() yields None, checker_routine
\* returns, block_on returns and the worker thread drops the runtime
WorkerExit ==
    /\ engine = "running"
    /\ input.queue = <<>>
    /\ ~input.open
    /\ engine' = "returned"
    /\ runtime' = "shutdown"
    /\ UNCHANGED <<input, requests, slots, tasks, verify_vars>>

\* line 268: the first poll of a spawned task
TaskPoll(r) ==
    /\ r \in DOMAIN tasks
    /\ tasks[r].pc = "start"
    /\ task_polled(r, verify(tasks[r]))
    /\ UNCHANGED <<input, requests, engine, runtime, verify_vars>>

\* lines 136-143, 164-171, 200-207: the query the task awaits is answered
TaskAnswer(r, possible) ==
    /\ r \in DOMAIN tasks
    /\ Suspended(tasks[r])
    /\ \E ans \in possible : task_polled(r, resume(tasks[r], ans))
    /\ UNCHANGED <<input, requests, engine, runtime, verify_vars>>

\* line 287: a task that has not completed when the runtime is dropped is
\* dropped at its suspension point, and its request with it
TaskCancel(r) ==
    /\ runtime = "shutdown"
    /\ r \in DOMAIN tasks
    /\ tasks[r].pc \in {"start", "change_pk", "single_eip1271", "batch_eip1271"}
    /\ tasks' = [tasks EXCEPT ![r].pc = "cancelled", ![r].pending = None]
    /\ slots' = [slots EXCEPT ![r] = drop_sender(@)]
    /\ UNCHANGED <<input, requests, engine, runtime, verify_vars>>

\* The caller of request r stops waiting and drops its Receiver.
CallerDrop(r) ==
    /\ r \in DOMAIN slots
    /\ slots[r].receiver = "alive"
    /\ slots[r].delivered = <<>>
    /\ slots' = [slots EXCEPT ![r].receiver = "dropped"]
    /\ UNCHANGED <<input, requests, tasks, engine, runtime, verify_vars>>

Reqs == 1..MaxReq

Next ==
    \/ Submit
    \/ CloseInput
    \/ Pull
    \/ WorkerExit
    \/ \E r \in Reqs : TaskPoll(r)
    \/ \E r \in Reqs : TaskAnswer(r, Answers)
    \/ \E r \in Reqs : TaskCancel(r)
    \/ \E r \in Reqs : CallerDrop(r)

Spec == Init /\ [][Next]_vars

\* ------------------------------------------------------------ LiveSpec
\* The engine while its inbound queue stays open and its callers keep
\* waiting, with every on-chain query answered.  The loop of checker_routine
\* and every spawned task are scheduled fairly by the runtime, and a query
\* that is awaited gets its answer.
Answered == {"true", "false"}

LNext ==
    \/ Submit
    \/ Pull
    \/ \E r \in Reqs : TaskPoll(r)
    \/ \E r \in Reqs : TaskAnswer(r, Answered)

LiveSpec ==
    /\ Init
    /\ [][LNext]_vars
    /\ WF_vars(Pull)
    /\ \A r \in Reqs : WF_vars(TaskPoll(r)) /\ WF_vars(TaskAnswer(r, Answered))

\* ------------------------------------------------------------ AbandonSpec
\* LiveSpec with callers that may stop waiting for their reply.
ANext == LNext \/ \E r \in Reqs : CallerDrop(r)

AbandonSpec ==
    /\ Init
    /\ [][ANext]_vars
    /\ WF_vars(Pull)
    /\ \A r \in Reqs : WF_vars(TaskPoll(r)) /\ WF_vars(TaskAnswer(r, Answered))

\* ------------------------------------------------------------ StallSpec
\* LiveSpec with an on-chain capability that may never answer the queries of
\* one request (the first): nothing is assumed about the answers to its task.
Stalled == {1}

StallSpec ==
    /\ Init
    /\ [][LNext]_vars
    /\ WF_vars(Pull)
    /\ \A r \in Reqs : WF_vars(TaskPoll(r))
    /\ \A r \in Reqs \ Stalled : WF_vars(TaskAnswer(r, Answered))

\* ------------------------------------------------------------ FaultSpec
\* LiveSpec with on-chain queries that may fail in transport: the answer
\* "error" makes the expect of the awaiting task panic.
FNext ==
    \/ Submit
    \/ Pull
    \/ \E r \in Reqs : TaskPoll(r)
    \/ \E r \in Reqs : TaskAnswer(r, Answers)

FaultSpec ==
    /\ Init
    /\ [][FNext]_vars
    /\ WF_vars(Pull)
    /\ \A r \in Reqs : WF_vars(TaskPoll(r)) /\ WF_vars(TaskAnswer(r, Answers))

\* ------------------------------------------------------------ VerifySpec
\* One call of VerifiedTx::verify on any payload, and the accessors applied
\* to a VerifiedTx it returned.
VInit ==
    /\ call \in {NewCall(p) : p \in TxVariant}
    /\ got = NotCalled
    /\ input = [queue |-> <<>>, open |-> TRUE]
    /\ requests = <<>>
    /\ slots = <<>>
    /\ tasks = <<>>
    /\ engine = "running"
    /\ runtime = "running"

VPoll ==
    /\ call.pc = "start"
    /\ call' = verify(call)
    /\ UNCHANGED <<got, engine_vars>>

VAnswer ==
    /\ Suspended(call)
    /\ \E ans \in Answers : call' = resume(call, ans)
    /\ UNCHANGED <<got, engine_vars>>

VUnwrapTx ==
    /\ call.pc = "done" /\ call.result.tag = "Ok" /\ got = NotCalled
    /\ got' = [accessor |-> "unwrap_tx"] @@ unwrap_tx(call.result.val[1])
    /\ UNCHANGED <<call, engine_vars>>

VUnwrapBatch ==
    /\ call.pc = "done" /\ call.result.tag = "Ok" /\ got = NotCalled
    /\ got' = [accessor |-> "unwrap_batch"] @@ unwrap_batch(call.result.val[1])
    /\ UNCHANGED <<call, engine_vars>>

VNext == VPoll \/ VAnswer \/ VUnwrapTx \/ VUnwrapBatch

VerifySpec == VInit /\ [][VNext]_vars

\* ------------------------------------------------------------ properties
\* What the payload of the call says, read off its data.
Payload == call.tx
Items == Payload.txs
Returned == call.pc = "done"
ReturnedOk == Returned /\ call.result.tag = "Ok"
ReturnedErr(e) == Returned /\ call.result = Err(e)
IsSingle == Payload.variant = "Tx"
IsBatch == Payload.variant = "Batch"
IsEthereum(d) == d.signature.type = "EthereumSignature"
WithoutOwnSignature(t) == t.tx.kind = "ChangePubKey" /\ ~t.tx.eth_signature
RecoversTo(t) == t.eth_sign_data[1].signature.signer
HasMismatchedSignature(t) ==
    /\ t.eth_sign_data # None
    /\ IsEthereum(t.eth_sign_data[1])
    /\ RecoversTo(t) \in Accounts
    /\ RecoversTo(t) # t.tx.account
HasMatchingSignature(t) ==
    /\ t.eth_sign_data # None
    /\ IsEthereum(t.eth_sign_data[1])
    /\ RecoversTo(t) = t.tx.account

\* The on-chain query q was made and answered a.
QueryAnswered(q, a) ==
    \E k \in 1..Len(call.answers) : call.trace[k] = q /\ call.answers[k] = a
QueryMade(q) == \E k \in 1..Len(call.trace) : call.trace[k] = q

\* The checks of section 4.1 and 4.2 of the specification, as conditions
\* on the payload and on the answers the on-chain queries gave.
ItemAuthorized(k) ==
    LET t == Items[k] IN
    /\ WithoutOwnSignature(t) => QueryAnswered(QueryPk(k, t.tx), "true")
    /\ t.eth_sign_data # None =>
          LET d == t.eth_sign_data[1] IN
          IF IsEthereum(d) THEN d.signature.signer = t.tx.account
          ELSE QueryAnswered(QueryEip(k, t.tx.account, d.message, d.signature), "true")
BatchAuthorized ==
    LET d == Payload.batch_sign_data[1] IN
    IF IsEthereum(d)
    THEN /\ d.signature.signer \in Accounts
         /\ \A k \in 1..Len(Items) : Items[k].tx.account = d.signature.signer
    ELSE \A k \in 1..Len(Items) :
            QueryAnswered(QueryEip(k, Items[k].tx.account, d.message, d.signature),
                          "true")
AllItemsAuthorized == \A k \in 1..Len(Items) : ItemAuthorized(k)
AllItemsCorrect == \A k \in 1..Len(Items) : Items[k].tx.correct

\* The call of verify that the task of request r has made so far, replayed
\* on the payload of request r with the answers the task was given.
RECURSIVE Feed(_, _)
Feed(c, as) ==
    IF as = <<>> \/ ~Suspended(c) THEN c
    ELSE Feed(resume(c, Head(as)), Tail(as))
Replay(payload, as) == Feed(verify(NewCall(payload)), as)

\* C1: every request gets at most one value on its reply slot, and a value
\* delivered is the result of VerifiedTx::verify on the payload of that very
\* request (under the answers its own on-chain queries were given).
C1_OneReplyOfOwnPayload ==
    \A r \in DOMAIN slots :
        /\ Len(slots[r].delivered) <= 1
        /\ Len(slots[r].delivered) = 1 =>
              /\ r \in DOMAIN tasks
              /\ LET c == Replay(requests[r], tasks[r].answers) IN
                    /\ c.pc = "done"
                    /\ slots[r].delivered[1] = c.result

\* Two requests with different payloads are in flight together and the later
\* one has been replied to first.
C1_Witness ==
    /\ Len(tasks) = 2
    /\ requests[1] # requests[2]
    /\ Suspended(tasks[1])
    /\ Len(slots[2].delivered) = 1
    /\ slots[2].delivered[1].tag = "Ok"

\* C2: under fair scheduling of the engine loop and of the tasks, with every
\* on-chain query answered, every request that was enqueued is eventually
\* pulled and its reply slot eventually holds an Ok or an Err value.
Replied(r) ==
    /\ r \in DOMAIN tasks
    /\ Len(slots[r].delivered) = 1
    /\ slots[r].delivered[1].tag \in {"Ok", "Err"}
C2_EveryRequestReplied ==
    \A r \in Reqs : (r \in DOMAIN requests) ~> Replied(r)

\* Every request has been replied to, one of them after an on-chain query.
C2_Witness ==
    /\ Len(requests) = MaxReq
    /\ \A r \in DOMAIN requests : Replied(r)
    /\ \E r \in DOMAIN requests : Len(tasks[r].answers) >= 1

\* C3: verify returns Ok only if the batch-level authorization (of a batch),
\* the authorization of every item and check_correctness of every item all
\* succeeded.
C3_OkOnlyIfAllChecksPassed ==
    ReturnedOk =>
        /\ IsBatch => BatchAuthorized
        /\ AllItemsAuthorized
        /\ AllItemsCorrect

\* A batch of two items was verified after on-chain queries at batch level
\* and at item level.
C3_Witness ==
    /\ ReturnedOk
    /\ IsBatch
    /\ Len(Items) = 2
    /\ ~IsEthereum(Payload.batch_sign_data[1])
    /\ \E k \in 1..2 : WithoutOwnSignature(Items[k])
    /\ Len(call.answers) >= 3

\* C4 as stated: a single item whose recoverable signature recovers to an
\* address other than its account is rejected with IncorrectEthSignature,
\* whatever the kind of the transaction.
C4_MismatchAlwaysIncorrectEthSignature ==
    (IsSingle /\ HasMismatchedSignature(Items[1]) /\ Returned)
        => ReturnedErr("IncorrectEthSignature")

\* C4 amended: such an item is rejected with IncorrectEthSignature without
\* any on-chain query, unless it is a ChangePubKey without its own
\* eth_signature: then the on-chain authorization query is made first, verify
\* returns ChangePkNotAuthorized if it is denied and IncorrectEthSignature if
\* it is granted.
C4_MismatchRejected ==
    (IsSingle /\ HasMismatchedSignature(Items[1])) =>
        IF WithoutOwnSignature(Items[1])
        THEN /\ call.pc \in {"start", "change_pk", "done", "panicked"}
             /\ call.pc # "start" => call.trace = <<QueryPk(1, Items[1].tx)>>
             /\ Returned =>
                   \/ call.answers = <<"false">> /\ ReturnedErr("ChangePkNotAuthorized")
                   \/ call.answers = <<"true">> /\ ReturnedErr("IncorrectEthSignature")
        ELSE /\ call.pc \in {"start", "done"}
             /\ Returned => ReturnedErr("IncorrectEthSignature") /\ call.trace = <<>>

\* A ChangePubKey without its own eth_signature, authorized on-chain, was
\* rejected for its mismatched signature.
C4_Witness ==
    /\ IsSingle
    /\ HasMismatchedSignature(Items[1])
    /\ WithoutOwnSignature(Items[1])
    /\ call.answers = <<"true">>
    /\ ReturnedErr("IncorrectEthSignature")

\* C5 as stated: a single item whose recoverable signature recovers to its
\* account verifies.
C5_MatchingSignatureAlwaysOk ==
    (IsSingle /\ HasMatchingSignature(Items[1]) /\ Returned) => ReturnedOk

\* C5 amended: a single item whose recoverable signature recovers to its
\* account verifies exactly when it passes check_correctness and, if it is a
\* ChangePubKey without its own eth_signature, the on-chain authorization
\* query answered true; a denied query gives ChangePkNotAuthorized and a
\* failed check_correctness IncorrectTx.
C5_MatchingSignatureOkIff ==
    (IsSingle /\ HasMatchingSignature(Items[1]) /\ Returned) =>
        LET t == Items[1]
            granted == WithoutOwnSignature(t) => call.answers = <<"true">>
        IN  /\ ReturnedOk <=> (granted /\ t.tx.correct)
            /\ ~granted => /\ call.answers = <<"false">>
                           /\ ReturnedErr("ChangePkNotAuthorized")
            /\ (granted /\ ~t.tx.correct) => ReturnedErr("IncorrectTx")
            /\ ~WithoutOwnSignature(t) => call.answers = <<>>

\* A ChangePubKey without its own eth_signature and with a matching attached
\* signature verified after the on-chain query.
C5_Witness ==
    /\ IsSingle
    /\ HasMatchingSignature(Items[1])
    /\ WithoutOwnSignature(Items[1])
    /\ ReturnedOk

\* C6 as stated: a ChangePubKey without any off-chain signature verifies if
\* and only if the on-chain query reports true, and is rejected with
\* ChangePkNotAuthorized otherwise.
UnsignedChangePubKey ==
    /\ IsSingle
    /\ WithoutOwnSignature(Items[1])
    /\ Items[1].eth_sign_data = None
C6_OkIffAuthorizedOnchain ==
    (UnsignedChangePubKey /\ Returned) =>
        /\ ReturnedOk <=> QueryAnswered(QueryPk(1, Items[1].tx), "true")
        /\ ~ReturnedOk => ReturnedErr("ChangePkNotAuthorized")

\* C6 amended: for such an item verify makes the on-chain authorization
\* query before anything else; it returns ChangePkNotAuthorized if and only
\* if the query reports false, and when the query reports true it returns Ok
\* if the item passes check_correctness and IncorrectTx if it does not.  It
\* never returns Ok without the query having been made and answered true.
C6_UnsignedChangePubKey ==
    UnsignedChangePubKey =>
        /\ call.pc \in {"start", "change_pk", "done", "panicked"}
        /\ call.pc # "start" => QueryMade(QueryPk(1, Items[1].tx))
        /\ Returned =>
              /\ ReturnedErr("ChangePkNotAuthorized") <=> call.answers = <<"false">>
              /\ ReturnedOk <=> (call.answers = <<"true">> /\ Items[1].tx.correct)
              /\ (call.answers = <<"true">> /\ ~Items[1].tx.correct)
                    => ReturnedErr("IncorrectTx")
              /\ ReturnedOk => QueryAnswered(QueryPk(1, Items[1].tx), "true")

\* The query was denied and the item rejected.
C6_Witness ==
    /\ UnsignedChangePubKey
    /\ call.answers = <<"false">>
    /\ ReturnedErr("ChangePkNotAuthorized")

\* C7: a batch whose recoverable batch signature recovers to an address that
\* is not the account of every item is rejected with IncorrectEthSignature,
\* before any on-chain query and whatever its items are.
BatchSignerNotShared ==
    /\ IsBatch
    /\ IsEthereum(Payload.batch_sign_data[1])
    /\ Payload.batch_sign_data[1].signature.signer \in Accounts
    /\ \E k \in 1..Len(Items) :
          Items[k].tx.account # Payload.batch_sign_data[1].signature.signer
C7_BatchSignerMismatchRejected ==
    BatchSignerNotShared =>
        /\ call.pc \in {"start", "done"}
        /\ Returned => ReturnedErr("IncorrectEthSignature") /\ call.trace = <<>>

\* The first item has the signer's account, is correct and carries a valid
\* signature of its own; the second has another account.
C7_Witness ==
    /\ BatchSignerNotShared
    /\ Len(Items) = 2
    /\ HasMatchingSignature(Items[1])
    /\ Items[1].tx.account = Payload.batch_sign_data[1].signature.signer
    /\ Items[1].tx.correct
    /\ ReturnedErr("IncorrectEthSignature")

\* C8 as stated: a batch whose batch-level check passes and in which some
\* item fails check_correctness is rejected with IncorrectTx.
SomeItemIncorrect == \E k \in 1..Len(Items) : ~Items[k].tx.correct
C8_IncorrectItemGivesIncorrectTx ==
    (IsBatch /\ BatchAuthorized /\ SomeItemIncorrect /\ Returned)
        => ReturnedErr("IncorrectTx")

\* C8 amended: for a batch in which some item fails check_correctness no
\* VerifiedTx is produced, and the rejection is IncorrectTx when the
\* batch-level check and the authorization check of every item pass.
C8_IncorrectItemRejected ==
    (IsBatch /\ SomeItemIncorrect /\ Returned) =>
        /\ call.result.tag = "Err"
        /\ (BatchAuthorized /\ AllItemsAuthorized) => ReturnedErr("IncorrectTx")

\* The last item of a batch of MaxBatch items fails check_correctness and
\* everything else passes.
C8_Witness ==
    /\ IsBatch
    /\ Len(Items) = MaxBatch
    /\ BatchAuthorized
    /\ AllItemsAuthorized
    /\ \A k \in 1..(MaxBatch - 1) : Items[k].tx.correct
    /\ ~Items[MaxBatch].tx.correct
    /\ ReturnedErr("IncorrectTx")

C10_RoundTrip ==
    /\ got.accessor = "unwrap_tx" =>
          IF IsSingle
          THEN ~got.panic /\ got.txs = <<SignedZkSyncTx(Items[1])>>
          ELSE got.panic
    /\ got.accessor = "unwrap_batch" =>
          IF IsBatch
          THEN /\ ~got.panic
               /\ Len(got.txs) = Len(Items)
               /\ \A k \in 1..Len(Items) : got.txs[k].tx = Items[k].tx
               /\ got.sig = Some(Payload.batch_sign_data[1].signature)
          ELSE got.panic

\* unwrap_batch returned the two different transactions of a batch.
C10_Witness ==
    /\ got.accessor = "unwrap_batch"
    /\ ~got.panic
    /\ Len(got.txs) = 2
    /\ got.txs[1].tx # got.txs[2].tx

\* C11: when the caller of a request drops its Receiver before the task of
\* the request completes, the task still runs to completion and its send
\* stores nothing and fails nobody; every request, abandoned or not, is
\* pulled and its task completes, and every request that was not abandoned
\* receives its reply.
Abandoned(r) == slots[r].receiver = "dropped"
TaskCompleted(r) ==
    /\ r \in DOMAIN tasks
    /\ tasks[r].pc = "done"
    /\ slots[r].sender = "consumed"
    /\ engine = "running"
C11_AbandonmentHarmless ==
    \A r \in Reqs :
        (r \in DOMAIN requests) ~>
            /\ TaskCompleted(r)
            /\ IF Abandoned(r) THEN slots[r].delivered = <<>> ELSE Replied(r)

\* The first request was abandoned while its task awaited an on-chain query;
\* the task completed without a delivery, and the second request, submitted
\* later, was replied to.
C11_Witness ==
    /\ Len(tasks) = 2
    /\ Abandoned(1)
    /\ Len(tasks[1].answers) >= 1
    /\ TaskCompleted(1)
    /\ slots[1].delivered = <<>>
    /\ ~Abandoned(2)
    /\ Replied(2)

\* C12: the loop of checker_routine never waits for a task: while the task
\* of one request may wait for ever for the answer of an on-chain query,
\* every other request is still pulled, verified and replied to, and the
\* inbound queue does not stay full.
QueueFull == Len(input.queue) = QueueCap
C12_NoHeadOfLineBlocking ==
    /\ \A r \in Reqs \ Stalled : (r \in DOMAIN requests) ~> Replied(r)
    /\ \A r \in Reqs : (r \in DOMAIN requests) ~> (r \in DOMAIN tasks)
    /\ QueueFull ~> ~QueueFull

\* The first request still waits for the answer of its query; a later
\* request was pulled and replied to after a query of its own.
C12_Witness ==
    /\ Len(tasks) = MaxReq
    /\ Suspended(tasks[1])
    /\ slots[1].delivered = <<>>
    /\ Replied(MaxReq)
    /\ Len(tasks[MaxReq].answers) >= 1
    /\ input.queue = <<>>

\* C13: a transport failure of an on-chain query gives no rejection: the
\* task faults, no value is ever stored in the reply slot of its request, and
\* the slot is closed by the drop of its Sender, which no slot that holds a
\* reply is.
TransportFailed(r) ==
    \E k \in 1..Len(tasks[r].answers) : tasks[r].answers[k] = "error"
ClosedWithoutValue(r) == slots[r].sender = "dropped" /\ slots[r].delivered = <<>>
C13_TransportFailureIsNoRejection ==
    \A r \in DOMAIN tasks :
        /\ TransportFailed(r) =>
              /\ tasks[r].pc = "panicked"
              /\ tasks[r].result = NoResult
              /\ tasks[r].answers[Len(tasks[r].answers)] = "error"
              /\ ClosedWithoutValue(r)
        /\ slots[r].delivered # <<>> =>
              /\ ~ClosedWithoutValue(r)
              /\ slots[r].sender = "consumed"
              /\ slots[r].delivered[1].tag \in {"Ok", "Err"}

\* One task faulted on its second query, and the task of another request
\* delivered a rejection.
C13_Witness ==
    /\ \E r \in DOMAIN tasks :
          /\ TransportFailed(r)
          /\ Len(tasks[r].answers) = 2
          /\ slots[r].receiver = "alive"
    /\ \E r \in DOMAIN tasks :
          /\ slots[r].delivered # <<>>
          /\ slots[r].delivered[1].tag = "Err"

\* C14: the engine terminates when its inbound queue is closed and drained,
\* and the tasks in flight at that moment finish: the reply slot of a request
\* that was pulled is never closed without a value while its caller waits
\* (unless a query of its task failed in transport).
C14_InFlightTasksFinish ==
    /\ engine = "returned" => (input.queue = <<>> /\ ~input.open)
    /\ \A r \in DOMAIN tasks :
          (slots[r].receiver = "alive" /\ ~TransportFailed(r))
              => ~ClosedWithoutValue(r)

\* The authorization checks of a payload in the order of section 4.1 of the
\* specification: the batch-level check (one check of the recovered signer,
\* or one contract query per item), then for every item in sequence order
\* its on-chain key-change authorization and its signature.  A check is
\* either decided by the payload (pass) or by the answer of a query (q), and
\* has the rejection it gives when it fails.
LocalCheck(pass, e) == [q |-> None, pass |-> pass, err |-> e]
QueryCheck(q, e) == [q |-> Some(q), pass |-> TRUE, err |-> e]
BatchLevelChecks ==
    IF ~IsBatch THEN <<>>
    ELSE LET d == Payload.batch_sign_data[1] IN
         IF IsEthereum(d)
         THEN <<LocalCheck(/\ d.signature.signer \in Accounts
                           /\ \A k \in 1..Len(Items) :
                                 Items[k].tx.account = d.signature.signer,
                           "IncorrectEthSignature")>>
         ELSE [k \in 1..Len(Items) |->
                  QueryCheck(QueryEip(k, Items[k].tx.account, d.message, d.signature),
                             "IncorrectTx")]
ItemChecks(k) ==
    LET t == Items[k] IN
    (IF WithoutOwnSignature(t)
     THEN <<QueryCheck(QueryPk(k, t.tx), "ChangePkNotAuthorized")>> ELSE <<>>)
    \o (IF t.eth_sign_data = None THEN <<>>
        ELSE LET d == t.eth_sign_data[1] IN
             IF IsEthereum(d)
             THEN <<LocalCheck(d.signature.signer = t.tx.account,
                               "IncorrectEthSignature")>>
             ELSE <<QueryCheck(QueryEip(k, t.tx.account, d.message, d.signature),
                               "IncorrectTx")>>)
RECURSIVE ItemChecksFrom(_)
ItemChecksFrom(k) ==
    IF k > Len(Items) THEN <<>> ELSE ItemChecks(k) \o ItemChecksFrom(k + 1)
AuthorizationChecks == BatchLevelChecks \o ItemChecksFrom(1)

\* The checks run one after the other until the first that fails: the
\* queries made on the way, and how the run ends with the answers as.
RECURSIVE RunChecks(_, _, _)
RunChecks(checks, as, made) ==
    IF checks = <<>> THEN [end |-> "passed", err |-> "", queries |-> made]
    ELSE LET h == Head(checks) IN
         IF h.q = None
         THEN IF h.pass THEN RunChecks(Tail(checks), as, made)
              ELSE [end |-> "rejected", err |-> h.err, queries |-> made]
         ELSE LET qs == Append(made, h.q[1]) IN
              IF as = <<>> THEN [end |-> "waiting", err |-> "", queries |-> qs]
              ELSE IF Head(as) = "true" THEN RunChecks(Tail(checks), Tail(as), qs)
              ELSE IF Head(as) = "false"
              THEN [end |-> "rejected", err |-> h.err, queries |-> qs]
              ELSE [end |-> "faulted", err |-> "", queries |-> qs]

IsQuery(e) == e.call # "check_correctness"
IsCheck(e) == e.call = "check_correctness"
QueriesMade == SelectSeq(call.trace, IsQuery)
ChecksMade == SelectSeq(call.trace, IsCheck)

\* C15: in the verification of a batch the batch-level check comes first,
\* the checks of the items follow in sequence order, and the first check that
\* fails ends the verification: its rejection is returned, and no query and
\* no check is made after it.
C15_OrderAndShortCircuit ==
    (IsBatch /\ call.pc # "start") =>
        LET run == RunChecks(AuthorizationChecks, call.answers, <<>>) IN
        /\ QueriesMade = run.queries
        /\ run.end = "rejected" => ReturnedErr(run.err) /\ ChecksMade = <<>>
        /\ run.end = "waiting" => Suspended(call) /\ ChecksMade = <<>>
        /\ run.end = "faulted" => call.pc = "panicked" /\ ChecksMade = <<>>
        /\ run.end = "passed" => Returned

\* The batch-level queries of both items and the key-change query of the
\* first item were granted and the signature query of the first item denied:
\* nothing was asked for the second item, which needs a key-change query.
C15_Witness ==
    /\ IsBatch
    /\ Len(Items) = 2
    /\ call.answers = <<"true", "true", "true", "false">>
    /\ WithoutOwnSignature(Items[1])
    /\ WithoutOwnSignature(Items[2])
    /\ ~Items[1].tx.correct
    /\ ReturnedErr("IncorrectTx")
    /\ Len(call.trace) = 4

\* C16: check_correctness is called on no item before the authorization of
\* the whole payload has succeeded, so a payload with an authorization
\* failure is rejected for it, also when it has an item that fails
\* check_correctness.
PayloadAuthorized == (IsBatch => BatchAuthorized) /\ AllItemsAuthorized
C16_CorrectnessAfterAuthorization ==
    /\ ChecksMade # <<>> => PayloadAuthorized /\ Returned
    /\ (Returned /\ ~PayloadAuthorized) =>
          /\ ChecksMade = <<>>
          /\ ReturnedErr(RunChecks(AuthorizationChecks, call.answers, <<>>).err)
    /\ (Returned /\ PayloadAuthorized) =>
          /\ ChecksMade = CheckedPrefix(Items, 1)
          /\ ChecksMade # <<>> \/ Items = <<>>

\* A batch whose first item fails check_correctness and whose second item
\* was denied its key change on-chain is rejected for the key change.
C16_Witness ==
    /\ IsBatch
    /\ Len(Items) = 2
    /\ ~Items[1].tx.correct
    /\ ItemAuthorized(1)
    /\ ~ItemAuthorized(2)
    /\ ReturnedErr("ChangePkNotAuthorized")
    /\ ChecksMade = <<>>

\* The queries of the batch-level check: those about the batch message.
IsBatchLevelQuery(e) ==
    e.call = "is_eip1271_signature_correct" /\ e.message = BatchMessage
BatchLevelQueries == SelectSeq(call.trace, IsBatchLevelQuery)
HasContractBatchSignature ==
    IsBatch /\ ~IsEthereum(Payload.batch_sign_data[1])

\* C17 as stated: under an EIP1271 batch signature no account is queried
\* twice at batch level, every batch-level query is about the batch message
\* and signature, and a negative answer rejects the batch as IncorrectTx.
C17_OncePerDistinctAccount ==
    HasContractBatchSignature =>
        LET q == BatchLevelQueries
            d == Payload.batch_sign_data[1]
        IN
        /\ \A j, k \in 1..Len(q) : j # k => q[j].account # q[k].account
        /\ \A k \in 1..Len(q) : q[k].signature = Some(d.signature)
        /\ \A k \in 1..Len(q) :
              (k <= Len(call.answers) /\ call.answers[k] = "false")
                  => ReturnedErr("IncorrectTx")

\* C17 amended: under an EIP1271 batch signature the batch-level check
\* makes one query per item, in sequence order and for the account of the
\* item, also when an earlier item has the same account; each is about the
\* batch message and signature, the next is made only after a positive
\* answer, and a negative answer rejects the batch as IncorrectTx.
C17_OneQueryPerItem ==
    (HasContractBatchSignature /\ call.pc # "start") =>
        LET q == BatchLevelQueries
            d == Payload.batch_sign_data[1]
            n == Len(BatchLevelQueries)
        IN
        /\ n <= Len(Items)
        /\ \A k \in 1..n :
              /\ call.trace[k] = q[k]
              /\ q[k] = QueryEip(k, Items[k].tx.account, d.message, d.signature)
              /\ k < n => call.answers[k] = "true"
        /\ n < Len(Items) =>
              \/ Len(call.answers) < n + 1 /\ call.pc = "batch_eip1271"
              \/ Len(call.answers) = n /\ call.answers[n] # "true"
        /\ \A k \in 1..n :
              (k <= Len(call.answers) /\ call.answers[k] = "false")
                  => ReturnedErr("IncorrectTx") /\ Len(call.trace) = k

\* Two items of one account: the account was queried for each of them,
\* and the second answer rejected the batch.
C17_Witness ==
    /\ HasContractBatchSignature
    /\ Len(Items) = 2
    /\ Items[1].tx.account = Items[2].tx.account
    /\ Len(BatchLevelQueries) = 2
    /\ BatchLevelQueries[1].account = BatchLevelQueries[2].account
    /\ call.answers = <<"true", "false">>
    /\ ReturnedErr("IncorrectTx")

\* The causes of the three rejections.
KeyChangeDenied ==
    \E k \in 1..Len(Items) :
        /\ WithoutOwnSignature(Items[k])
        /\ QueryAnswered(QueryPk(k, Items[k].tx), "false")
SignerDiffers(d, accounts) ==
    /\ IsEthereum(d)
    /\ \/ signature_recover_signer(d.signature, d.message) = RecoverError
       \/ \E a \in accounts :
              signature_recover_signer(d.signature, d.message) # a
RecoverableSignatureFails ==
    \/ /\ IsBatch
       /\ SignerDiffers(Payload.batch_sign_data[1],
                        {Items[k].tx.account : k \in 1..Len(Items)})
    \/ \E k \in 1..Len(Items) :
          /\ Items[k].eth_sign_data # None
          /\ SignerDiffers(Items[k].eth_sign_data[1], {Items[k].tx.account})
ContractCheckNegative ==
    \E k \in 1..Len(call.answers) :
        /\ call.trace[k].call = "is_eip1271_signature_correct"
        /\ call.answers[k] = "false"
CorrectnessCheckFailed ==
    \E k \in 1..Len(Items) :
        QueryMade(CheckEvent(k, Items[k].tx)) /\ ~check_correctness(Items[k].tx)

\* C18: a rejection of verify is ChangePkNotAuthorized, IncorrectEthSignature
\* or IncorrectTx, and each has its cause: a denied on-chain authorization
\* of a key change without signature; a recoverable signature that fails
\* recovery or recovers to another address than an item's account; a
\* negative EIP1271 answer or a failed check_correctness.  A negative
\* EIP1271 answer never gives IncorrectEthSignature.
C18_RejectionTaxonomy ==
    (Returned /\ call.result.tag = "Err") =>
        /\ call.result.err \in
              {"ChangePkNotAuthorized", "IncorrectEthSignature", "IncorrectTx"}
        /\ ReturnedErr("ChangePkNotAuthorized") => KeyChangeDenied
        /\ ReturnedErr("IncorrectEthSignature") =>
              RecoverableSignatureFails /\ ~ContractCheckNegative
        /\ ReturnedErr("IncorrectTx") =>
              ContractCheckNegative \/ CorrectnessCheckFailed
        /\ ContractCheckNegative => ReturnedErr("IncorrectTx")

\* A negative EIP1271 answer for an item that would pass check_correctness
\* and that another signature of the payload does not match.
C18_Witness ==
    /\ IsBatch
    /\ Len(Items) = 2
    /\ ContractCheckNegative
    /\ AllItemsCorrect
    /\ HasMismatchedSignature(Items[2])
    /\ ReturnedErr("IncorrectTx")

\* C19: the transport failure of a query of one task ends that task only.
\* The task of a request ends in a panic only on the failure of a query of
\* its own; the loop of checker_routine goes on pulling, so every request
\* enqueued is eventually spawned, and every request whose own task met no
\* failure eventually receives its reply, whatever happened to the others.
TaskFaulted(r) ==
    /\ r \in DOMAIN tasks
    /\ tasks[r].pc = "panicked"
    /\ tasks[r].answers # <<>>
    /\ tasks[r].answers[Len(tasks[r].answers)] = "error"
NoAnswerFailed(r) ==
    \A k \in 1..Len(tasks[r].answers) : tasks[r].answers[k] # "error"
C19_FaultIsolation ==
    /\ [](\A r \in DOMAIN tasks :
            /\ tasks[r].pc = "panicked" => TaskFaulted(r)
            /\ NoAnswerFailed(r) => tasks[r].pc # "panicked")
    /\ [](engine = "running")
    /\ \A r \in Reqs :
          (r \in DOMAIN requests) ~> (r \in DOMAIN tasks)
    /\ \A r \in Reqs :
          (r \in DOMAIN requests) ~> (TaskFaulted(r) \/ Replied(r))

\* The task of the first request panicked on a failed query and its reply
\* slot was closed; the second request was replied to after a query.
C19_Witness ==
    /\ Len(tasks) = 2
    /\ TaskFaulted(1)
    /\ ClosedWithoutValue(1)
    /\ Len(tasks[2].answers) >= 1
    /\ NoAnswerFailed(2)
    /\ Replied(2)

\* The position in the trace of the on-chain authorization query of item k
\* and of the EIP1271 query about the signature data of item k (0: not made).
PositionOf(q) ==
    IF QueryMade(q)
    THEN CHOOSE k \in 1..Len(call.trace) :
            call.trace[k] = q /\ \A j \in 1..(k - 1) : call.trace[j] # q
    ELSE 0
OwnSignatureQuery(k) ==
    LET d == Items[k].eth_sign_data[1] IN
    QueryEip(k, Items[k].tx.account, d.message, d.signature)
SignatureCheckPasses(k) ==
    LET t == Items[k] IN
    t.eth_sign_data # None =>
        IF IsEthereum(t.eth_sign_data[1]) THEN HasMatchingSignature(t)
        ELSE QueryAnswered(OwnSignatureQuery(k), "true")

\* C20: is_new_pubkey_hash_authorized is queried for an item exactly when
\* the item is a ChangePubKey without eth_signature, with or without
\* eth_sign_data, and before the signature data is checked; a denial gives
\* ChangePkNotAuthorized whatever the signature data is, after an
\* authorization the signature data is still checked, and verify accepts
\* only if the query and the signature check both passed.
C20_AuthorizationAndSignatureCumulative ==
    /\ (IsSingle /\ call.pc # "start") =>
          (QueryMade(QueryPk(1, Items[1].tx)) <=> WithoutOwnSignature(Items[1]))
    /\ \A k \in 1..Len(Items) :
          LET t == Items[k]
              pk == QueryPk(k, t.tx)
          IN
          /\ QueryMade(pk) => WithoutOwnSignature(t)
          /\ QueryAnswered(pk, "false") => ReturnedErr("ChangePkNotAuthorized")
          /\ (WithoutOwnSignature(t) /\ t.eth_sign_data # None
                 /\ ~IsEthereum(t.eth_sign_data[1])
                 /\ QueryMade(OwnSignatureQuery(k))) =>
                /\ QueryAnswered(pk, "true")
                /\ PositionOf(pk) < PositionOf(OwnSignatureQuery(k))
          /\ (WithoutOwnSignature(t) /\ QueryAnswered(pk, "true")
                 /\ t.eth_sign_data # None) =>
                IF IsEthereum(t.eth_sign_data[1])
                THEN ~HasMatchingSignature(t) => ReturnedErr("IncorrectEthSignature")
                ELSE QueryMade(OwnSignatureQuery(k))
          /\ (ReturnedOk /\ WithoutOwnSignature(t)) =>
                QueryAnswered(pk, "true") /\ SignatureCheckPasses(k)

\* A ChangePubKey without eth_signature whose attached signature data
\* recovers to another account: the on-chain query was made and its denial
\* was the rejection.
C20_Witness ==
    /\ IsSingle
    /\ WithoutOwnSignature(Items[1])
    /\ HasMismatchedSignature(Items[1])
    /\ QueryAnswered(QueryPk(1, Items[1].tx), "false")
    /\ ReturnedErr("ChangePkNotAuthorized")

====
